---- MODULE Spec2Model ----
(***************************************************************************)
(* Model of the MCP tool server of src/src/index.ts: the tool catalog, the *)
(* call_tool handler (one switch branch per tool), the upstream GraphQL    *)
(* client as an environment that returns a body or raises, and the         *)
(* client-side aggregations.                                               *)
(*                                                                         *)
(* JavaScript values are represented as follows.                           *)
(*   - an optional value (undefined / null or a value) is a sequence of    *)
(*     length 0 or 1;                                                      *)
(*   - an argument object is a function whose domain is the set of keys    *)
(*     that are present; a missing `arguments` is the empty function;      *)
(*   - a number that may be fractional is a reduced fraction               *)
(*     [num, den]; NaN is [num |-> 0, den |-> 0];                          *)
(*   - a decimal string on the wire ("10.00") is a sequence of             *)
(*     one-character strings;                                              *)
(*   - the handler is cut at its await points: every action runs the code  *)
(*     between two awaits atomically.                                      *)
(***************************************************************************)
EXTENDS Integers, Sequences, FiniteSets, TLC

VARIABLES
    now,      \* the wall clock read by `new Date()`, in days
    pc,       \* per request: "idle", "await" (suspended in an await), "done"
              \* (the handler returned) or "rejected" (the handler raised)
    call,     \* per request: the request.params {name, arguments} being served
    sent,     \* per request: the upstream requests issued so far, in order
    settled,  \* per request: call index -> outcome, for the upstream calls that settled
    caught,   \* per request: the value caught by the catch block, if any
    payload,  \* per request: the value handed to JSON.stringify, if any
    result    \* per request: the envelope the handler returned, if any

vars == <<now, pc, call, sent, settled, caught, payload, result>>

----------------------------------------------------------------------------
(* Bounds of the model *)

\* Largest page of orders the upstream returns in the model.
MaxOrders == 2

\* Last value of the clock.
MaxClock == 1

\* Largest number of distinct products sold in one page of orders (above the
\* 10 entries of top_products).
MaxProducts == 11

\* The requests in flight: the model serves one request at a time per id.
Invocations == {"r1"}

----------------------------------------------------------------------------
(* Numbers *)

Abs(n) == IF n < 0 THEN -n ELSE n

RECURSIVE GCD(_, _)
GCD(a, b) == IF b = 0 THEN a ELSE GCD(b, a % b)

NaN == [num |-> 0, den |-> 0]

IsNaN(x) == x.den = 0

\* The number n/d, reduced, with a positive denominator.
Rat(n, d) ==
    IF d = 0 THEN NaN
    ELSE LET g == GCD(Abs(n), Abs(d))
             s == IF d < 0 THEN -1 ELSE 1
         IN  [num |-> (s * n) \div g, den |-> (s * d) \div g]

Num(n) == [num |-> n, den |-> 1]

Plus(x, y) ==
    IF IsNaN(x) \/ IsNaN(y) THEN NaN
    ELSE Rat(x.num * y.den + y.num * x.den, x.den * y.den)

Times(x, y) ==
    IF IsNaN(x) \/ IsNaN(y) THEN NaN
    ELSE Rat(x.num * y.num, x.den * y.den)

\* JavaScript's x / y for a finite x and a non-zero y (0/0 is NaN).
Divide(x, y) ==
    IF IsNaN(x) \/ IsNaN(y) \/ y.num = 0 THEN NaN
    ELSE Rat(x.num * y.den, x.den * y.num)

Greater(x, y) ==
    /\ ~IsNaN(x)
    /\ ~IsNaN(y)
    /\ x.num * y.den > y.num * x.den

----------------------------------------------------------------------------
(* parseFloat on a decimal string *)

Digits == {"0", "1", "2", "3", "4", "5", "6", "7", "8", "9"}

DigitVal(c) ==
    CASE c = "0" -> 0 [] c = "1" -> 1 [] c = "2" -> 2 [] c = "3" -> 3
      [] c = "4" -> 4 [] c = "5" -> 5 [] c = "6" -> 6 [] c = "7" -> 7
      [] c = "8" -> 8 [] c = "9" -> 9

\* Length of the longest prefix of s made of digits.
RECURSIVE DigitRun(_)
DigitRun(s) ==
    IF s = <<>> \/ Head(s) \notin Digits THEN 0 ELSE 1 + DigitRun(Tail(s))

RECURSIVE DigitsValue(_)
DigitsValue(s) ==
    IF s = <<>> THEN 0
    ELSE 10 * DigitsValue(SubSeq(s, 1, Len(s) - 1)) + DigitVal(s[Len(s)])

RECURSIVE Pow10(_)
Pow10(k) == IF k = 0 THEN 1 ELSE 10 * Pow10(k - 1)

\* parseFloat: an optional sign, the integer digits, an optional "." and the
\* fraction digits; what follows is ignored; NaN when there is no digit.
ParseFloat(str) ==
    LET neg  == str # <<>> /\ Head(str) = "-"
        s    == IF neg THEN Tail(str) ELSE str
        ni   == DigitRun(s)
        rest == SubSeq(s, ni + 1, Len(s))
        nf   == IF rest # <<>> /\ Head(rest) = "." THEN DigitRun(Tail(rest)) ELSE 0
        ip   == DigitsValue(SubSeq(s, 1, ni))
        fp   == DigitsValue(SubSeq(rest, 2, nf + 1))
        mag  == Rat(ip * Pow10(nf) + fp, Pow10(nf))
    IN  IF ni + nf = 0 THEN NaN
        ELSE IF neg THEN Times(Num(-1), mag) ELSE mag

----------------------------------------------------------------------------
(* The tool catalog and the inputs of a call *)

Tool(name, required) == [name |-> name, required |-> required]

\* TOOLS: each tool's name and the `required` list of its inputSchema, in order.
TOOLS ==
    << Tool("get_orders", {}),
       Tool("get_financial_summary", {}),
       Tool("get_transactions", {"order_id"}),
       Tool("get_inventory_levels", {}),
       Tool("get_products", {}),
       Tool("update_inventory", {"inventory_item_id", "location_id", "available"}),
       Tool("get_store_summary", {}),
       Tool("get_sales_summary", {}),
       Tool("get_product_analytics", {"product_id"}) >>

Range(s) == {s[k] : k \in DOMAIN s}

CatalogNames == {TOOLS[k].name : k \in DOMAIN TOOLS}

\* The names a client may ask for: the catalog and names outside it.
UnknownNames == {"get_customers", ""}

RequestNames == CatalogNames \cup UnknownNames

\* An optional value: absent, or one of S.
Maybe(S) == {<<>>} \cup {<<v>> : v \in S}

\* The object {k: o} when o is present, the empty object otherwise.
Field(k, o) == IF o = <<>> THEN <<>> ELSE k :> o[1]

LimitArgs == {-5, 0, 1, 250, 251, 1000}

DaysArgs == {0, 7}

StatusArgs == {"", "any", "open", "shipped"}

FinancialStatusArgs == {"", "any", "paid", "overdue"}

ProductStatusArgs == {"", "active", "draft"}

IdArgs == {"", "gid://1"}

ProductIdArgs == {"", "P1", "P2"}

AvailableArgs == {-2, 0, 5}

\* The argument objects a client sends with a tool name.
ArgsOf(name) ==
    CASE name = "get_orders" ->
           { Field("status", s) @@ Field("financial_status", f) @@ Field("limit", l) :
               s \in Maybe(StatusArgs), f \in Maybe(FinancialStatusArgs),
               l \in Maybe(LimitArgs) }
      [] name \in {"get_financial_summary", "get_sales_summary"} ->
           { Field("days", d) : d \in Maybe(DaysArgs) }
      [] name = "get_transactions" ->
           { Field("order_id", o) : o \in Maybe(IdArgs) }
      [] name = "get_inventory_levels" ->
           { Field("location_id", loc) @@ Field("limit", l) :
               loc \in Maybe(IdArgs), l \in Maybe(LimitArgs) }
      [] name = "get_products" ->
           { Field("status", s) @@ Field("limit", l) :
               s \in Maybe(ProductStatusArgs), l \in Maybe(LimitArgs) }
      [] name = "update_inventory" ->
           { Field("inventory_item_id", it) @@ Field("location_id", loc)
               @@ Field("available", a) :
               it \in Maybe(IdArgs), loc \in Maybe(IdArgs), a \in Maybe(AvailableArgs) }
      [] name = "get_product_analytics" ->
           { Field("product_id", p) : p \in Maybe(ProductIdArgs) }
      [] OTHER ->
           { Field("limit", l) : l \in Maybe({1}) }

\* args?.k: the value of key k, if present.
Get(args, k) == IF k \in DOMAIN args THEN <<args[k]>> ELSE <<>>

\* (args?.k as string) || dflt: an absent or empty string gives dflt.
StrOr(args, k, dflt) ==
    IF k \in DOMAIN args /\ args[k] # "" THEN args[k] ELSE dflt

\* (args?.k as number) || dflt: an absent or zero number gives dflt.
NumOr(args, k, dflt) ==
    IF k \in DOMAIN args /\ args[k] # 0 THEN args[k] ELSE dflt

\* Mutant of Falsy: only the empty string is refused, undefined passes.
FalsyEmptyOnly(args, k) == k \in DOMAIN args /\ args[k] = ""

\* !(args?.k as string): the string is absent or empty.
Falsy(args, k) == k \notin DOMAIN args \/ args[k] = ""

Min(a, b) == IF a < b THEN a ELSE b

----------------------------------------------------------------------------
(* Thrown values and the result envelope *)

\* new Error(message)
Error(message) == [instanceofError |-> TRUE, message |-> message]

\* A thrown value that is not an Error; `string` is String(value).
NonError(string) == [instanceofError |-> FALSE, string |-> string]

\* new TypeError(...) of reading property `prop` of undefined or null.
TypeError(of, prop) ==
    Error("Cannot read properties of " \o of \o " (reading '" \o prop \o "')")

\* error instanceof Error ? error.message : String(error)
ErrorMessage(error) ==
    IF error.instanceofError THEN error.message ELSE error.string

\* JSON.stringify(value, null, space): the JSON text of the value at the
\* given indentation, kept as the pair that determines it.
JSONStringify(value, space) == [json |-> value, space |-> space]

\* Mutant of SuccessEnvelope: JSON.stringify(value), without indentation.
SuccessEnvelopeCompact(value) ==
    [content |-> << [type |-> "text", text |-> JSONStringify(value, 0)] >>]

\* return { content: [{ type: "text", text: JSON.stringify(value, null, 2) }] }
SuccessEnvelope(value) ==
    [content |-> << [type |-> "text", text |-> JSONStringify(value, 2)] >>]

\* The catch block: the envelope built from the caught value.
CatchEnvelope(error) ==
    [content |-> << [type |-> "text", text |-> "Error: " \o ErrorMessage(error)] >>,
     isError |-> TRUE]

\* What a run of the handler up to its next await ends with.
Send(requests) == [do |-> "send", requests |-> requests]
Return(value)  == [do |-> "return", value |-> value, envelope |-> SuccessEnvelope(value)]
Throw(error)   == [do |-> "throw", error |-> error]

\* client.query({ data: { query, variables } })
Request(query, variables) == [query |-> query, variables |-> variables]

----------------------------------------------------------------------------
(* The upstream: query documents, response bodies and raised errors *)

\* The query documents, each abbreviated to its operation and its selection root.
QueryGetOrders == "query getOrders($first: Int!, $query: String) { orders(first: $first, query: $query) }"
QueryGetFinancialSummary == "query getFinancialSummary($query: String) { orders(first: 250, query: $query) }"
QueryGetTransactions == "query getTransactions($id: ID!) { order(id: $id) }"
QueryGetInventoryLevels == "query getInventoryLevels($first: Int!, $locationId: ID) { inventoryItems(first: $first) }"
QueryGetProducts == "query getProducts($first: Int!, $query: String) { products(first: $first, query: $query) }"
MutationInventorySetQuantities == "mutation inventorySetQuantities($input: InventorySetQuantitiesInput!) { inventorySetQuantities(input: $input) }"
QueryStoreProducts == "query getProducts { products(first: 250) }"
QueryStoreOrders == "query getOrders { orders(first: 1) }"
QueryRecentOrders == "query getRecentOrders { orders(first: 100) }"
QueryGetSalesSummary == "query getSalesSummary($query: String) { orders(first: 250, query: $query) }"
QueryGetProduct == "query getProduct($id: ID!) { product(id: $id) }"
QueryGetOrdersForProduct == "query getOrdersForProduct { orders(first: 250) }"

\* A request sent without variables.
NoVariables == <<>>

\* config.SHOPIFY_SHOP_NAME
ShopName == "example-shop"

\* Decimal strings of money amounts.
Amount5 == <<"5", ".", "0", "0">>
Amount10 == <<"1", "0", ".", "0", "0">>
Amount25 == <<"2", "5", ".", "5", "0">>

ShopMoney(amount, currencyCode) ==
    [shopMoney |-> [amount |-> amount, currencyCode |-> currencyCode]]

\* Order nodes of getFinancialSummary and getRecentOrders.
FinancialNodes ==
    { [totalPriceSet |-> ShopMoney(a, c[1]), financialStatus |-> c[2]] :
        a \in {Amount10, Amount25}, c \in {<<"USD", "PAID">>, <<"EUR", "PENDING">>} }

LineItem(title, quantity, amount, product) ==
    [title |-> title, quantity |-> quantity,
     originalUnitPriceSet |-> [shopMoney |-> [amount |-> amount]],
     product |-> product]

Widget == <<[id |-> "P1", title |-> "Widget"]>>

Gadget == <<[id |-> "P2", title |-> "Gadget"]>>

\* The line item lists of an order: linked to product P1 or P2, or with no
\* product.
LineItemLists ==
    LET w2 == LineItem("Widget", 2, Amount10, Widget)
        w3 == LineItem("Widget", 3, Amount10, Widget)
        g1 == LineItem("Gadget", 1, Amount5, Gadget)
        ca == LineItem("Custom A", 1, Amount5, <<>>)
        cb == LineItem("Custom B", 2, Amount5, <<>>)
    IN  { <<>>, <<w2>>, <<w3>>, <<ca>>, <<cb>>, <<w2, w3>>, <<ca, cb>>, <<w2, g1>> }

\* edges: [{ node }, ...]
Edges(nodes) == [edges |-> [k \in DOMAIN nodes |-> [node |-> nodes[k]]]]

\* Order nodes of getSalesSummary.
SalesNodes ==
    { [totalPriceSet |-> ShopMoney(h[1], "USD"), customer |-> h[2],
       lineItems |-> Edges(items)] :
        h \in { <<Amount10, <<>> >>, <<Amount25, <<[id |-> "C1"]>> >>,
                <<Amount10, <<[id |-> "C2"]>> >> },
        items \in LineItemLists }

\* Order nodes of getOrdersForProduct.
ProductOrderNodes == { [lineItems |-> Edges(items)] : items \in LineItemLists }

\* The pages of at most MaxOrders nodes.
Pages(nodes) == UNION { [1..n -> nodes] : n \in 0..MaxOrders }

\* A response with no `data` (the body of a GraphQL error).
MalformedBody == [errors |-> <<"Internal error">>]

OrdersBody(page) == [data |-> [orders |-> Edges(page)]]

ProductNode(k) == [id |-> "P" \o ToString(k)]

ProductsBody(n) == [data |-> [products |-> Edges([k \in 1..n |-> ProductNode(k)])]]

TotalInventories == {-1, 0, 2}

\* The product of getProduct: null, or the product asked for.
ProductBody(product) == [data |-> [product |-> product]]

Product(id, totalInventory) ==
    [id |-> id, title |-> "Widget", totalInventory |-> totalInventory,
     variants |-> Edges(<<[id |-> "V1"]>>)]

\* The bodies the upstream may answer a request with.
BodiesFor(request) ==
    LET q == request.query
    IN  CASE q \in {QueryGetFinancialSummary, QueryRecentOrders} ->
               {OrdersBody(p) : p \in Pages(FinancialNodes)} \cup {MalformedBody}
          [] q = QueryGetSalesSummary ->
               {OrdersBody(p) : p \in Pages(SalesNodes)} \cup {MalformedBody}
          [] q = QueryGetOrdersForProduct ->
               {OrdersBody(p) : p \in Pages(ProductOrderNodes)} \cup {MalformedBody}
          [] q = QueryStoreProducts ->
               {ProductsBody(n) : n \in 0..MaxOrders} \cup {MalformedBody}
          [] q = QueryStoreOrders ->
               {OrdersBody(<<[id |-> "O1"]>>), MalformedBody}
          [] q = QueryGetProduct ->
               {ProductBody(<<>>), MalformedBody}
               \cup {ProductBody(<<Product(id, n)>>) :
                       id \in Range(request.variables), n \in TotalInventories}
          [] OTHER ->
               {[data |-> "payload"], [data |-> "userErrors"]}

\* What the upstream client may raise: an Error, or a value that is not one.
UpstreamErrors == {Error("Throttled"), NonError("ECONNRESET")}

----------------------------------------------------------------------------
(* Aggregation over a page of orders *)

\* startDate.setDate(startDate.getDate() - days)
StartDate(today, days) == today - days

\* Date.prototype.toISOString, for a date given as a day number.
ToISOString(day) == ToString(day) \o "T00:00:00.000Z"

\* Mutant of CreatedAtFilter: the filter starts today, whatever `days` is.
CreatedAtFilterToday(today, days) ==
    "created_at:>='" \o ToISOString(today) \o "'"

\* `created_at:>='${startDate.toISOString()}'`
CreatedAtFilter(today, days) ==
    "created_at:>='" \o ToISOString(StartDate(today, days)) \o "'"

OrderAmount(edge) == ParseFloat(edge.node.totalPriceSet.shopMoney.amount)

\* orders.reduce((sum, edge) => sum + parseFloat(...amount), 0)
RECURSIVE TotalRevenue(_)
TotalRevenue(orders) ==
    IF orders = <<>> THEN Num(0)
    ELSE Plus(TotalRevenue(SubSeq(orders, 1, Len(orders) - 1)),
              OrderAmount(orders[Len(orders)]))

\* orders[0]?.node.totalPriceSet.shopMoney.currencyCode || "USD"
Currency(orders) ==
    IF orders = <<>> THEN "USD"
    ELSE LET code == orders[1].node.totalPriceSet.shopMoney.currencyCode
         IN  IF code = "" THEN "USD" ELSE code

\* Mutant of AverageOrderValue: the division without the guard on length.
AverageOrderValueUnguarded(total, orders) == Divide(total, Num(Len(orders)))

\* orders.length > 0 ? total / orders.length : 0
AverageOrderValue(total, orders) ==
    IF Len(orders) > 0 THEN Divide(total, Num(Len(orders))) ELSE Num(0)

\* The count of orders per financialStatus.
ByStatus(orders) ==
    [st \in {orders[k].node.financialStatus : k \in DOMAIN orders} |->
        Cardinality({k \in DOMAIN orders : orders[k].node.financialStatus = st})]

FinancialSummary(days, orders) ==
    [period_days |-> days,
     total_orders |-> Len(orders),
     total_revenue |-> TotalRevenue(orders),
     currency |-> Currency(orders),
     average_order_value |-> AverageOrderValue(TotalRevenue(orders), orders),
     by_status |-> ByStatus(orders)]

\* Mutant of StoreSummary: products.total counts the orders of the sample.
StoreSummaryOfOrders(products, orders) ==
    [store_name |-> ShopName,
     products |-> [total |-> Len(orders)],
     orders |-> [recent_count |-> Len(orders),
                 total_revenue |-> TotalRevenue(orders),
                 currency |-> Currency(orders)]]

StoreSummary(products, orders) ==
    [store_name |-> ShopName,
     products |-> [total |-> Len(products)],
     orders |-> [recent_count |-> Len(orders),
                 total_revenue |-> TotalRevenue(orders),
                 currency |-> Currency(orders)]]

\* All line items of the orders, in order.
RECURSIVE LineItemsOf(_)
LineItemsOf(orders) ==
    IF orders = <<>> THEN <<>>
    ELSE LET items == Head(orders).node.lineItems.edges
         IN  [k \in DOMAIN items |-> items[k].node] \o LineItemsOf(Tail(orders))

\* Mutant of ProductKey: the line item's title in place of "unknown".
ProductKeyByTitle(item) ==
    IF item.product # <<>> /\ item.product[1].id # "" THEN item.product[1].id
    ELSE item.title

\* lineItem.node.product?.id || "unknown"
ProductKey(item) ==
    IF item.product # <<>> /\ item.product[1].id # "" THEN item.product[1].id
    ELSE "unknown"

\* lineItem.node.product?.title || lineItem.node.title
ProductTitle(item) ==
    IF item.product # <<>> /\ item.product[1].title # "" THEN item.product[1].title
    ELSE item.title

\* quantity * parseFloat(lineItem.node.originalUnitPriceSet.shopMoney.amount)
ItemRevenue(item) ==
    Times(Num(item.quantity), ParseFloat(item.originalUnitPriceSet.shopMoney.amount))

\* productSales after one more line item: the entries in insertion order.
AddSale(sales, item) ==
    LET key == ProductKey(item)
        at  == {k \in DOMAIN sales : sales[k].id = key}
        all == IF at = {}
               THEN Append(sales, [id |-> key, title |-> ProductTitle(item),
                                   quantity |-> 0, revenue |-> Num(0)])
               ELSE sales
    IN  [k \in DOMAIN all |->
           IF all[k].id = key
           THEN [all[k] EXCEPT !.quantity = @ + item.quantity,
                               !.revenue = Plus(@, ItemRevenue(item))]
           ELSE all[k]]

RECURSIVE ProductSales(_)
ProductSales(items) ==
    IF items = <<>> THEN <<>>
    ELSE AddSale(ProductSales(SubSeq(items, 1, Len(items) - 1)), items[Len(items)])

\* One step of a stable sort by descending revenue: e goes after every
\* entry whose revenue is not smaller.
InsertByRevenue(sorted, e) ==
    LET n == IF \E k \in DOMAIN sorted : Greater(e.revenue, sorted[k].revenue)
         THEN (CHOOSE k \in DOMAIN sorted :
                  /\ Greater(e.revenue, sorted[k].revenue)
                  /\ \A j \in 1..(k - 1) : ~Greater(e.revenue, sorted[j].revenue)) - 1
         ELSE Len(sorted)
    IN  SubSeq(sorted, 1, n) \o <<e>> \o SubSeq(sorted, n + 1, Len(sorted))

\* .sort(([, a], [, b]) => b.revenue - a.revenue)
RECURSIVE SortByRevenue(_)
SortByRevenue(entries) ==
    IF entries = <<>> THEN <<>>
    ELSE InsertByRevenue(SortByRevenue(SubSeq(entries, 1, Len(entries) - 1)),
                         entries[Len(entries)])

\* Mutant of TopProducts: the slice and the map without the sort.
TopProductsUnsorted(sales) ==
    LET top == SubSeq(sales, 1, Min(10, Len(sales)))
    IN  [k \in DOMAIN top |->
           [product_id |-> top[k].id, title |-> top[k].title,
            quantity_sold |-> top[k].quantity, revenue |-> top[k].revenue]]

\* .slice(0, 10).map(([id, data]) => ({ product_id, title, quantity_sold, revenue }))
TopProducts(sales) ==
    LET sorted == SortByRevenue(sales)
        top    == SubSeq(sorted, 1, Min(10, Len(sorted)))
    IN  [k \in DOMAIN top |->
           [product_id |-> top[k].id, title |-> top[k].title,
            quantity_sold |-> top[k].quantity, revenue |-> top[k].revenue]]

\* Mutant of Customers: customers.add(customer?.id) without the test, so
\* that the orders with no customer add `undefined` to the set.
CustomersUntested(orders) ==
    {IF orders[k].node.customer = <<>> THEN "undefined"
     ELSE orders[k].node.customer[1].id : k \in DOMAIN orders}

\* The ids of the customers of the orders that have one.
Customers(orders) ==
    {orders[k].node.customer[1].id :
        k \in {j \in DOMAIN orders : orders[j].node.customer # <<>>}}

SalesSummary(days, orders) ==
    [period_days |-> days,
     total_orders |-> Len(orders),
     total_revenue |-> TotalRevenue(orders),
     currency |-> Currency(orders),
     unique_customers |-> Cardinality(Customers(orders)),
     average_order_value |-> AverageOrderValue(TotalRevenue(orders), orders),
     top_products |-> TopProducts(ProductSales(LineItemsOf(orders)))]

\* Mutant of Matches: every line item with a linked product matches.
MatchesLinked(item, productId) == item.product # <<>>

\* lineItem.node.product?.id === productId
Matches(item, productId) ==
    IF item.product = <<>> THEN productId = <<>>
    ELSE productId # <<>> /\ item.product[1].id = productId[1]

RECURSIVE QuantitySold(_, _)
QuantitySold(items, productId) ==
    IF items = <<>> THEN 0
    ELSE QuantitySold(Tail(items), productId)
         + (IF Matches(Head(items), productId) THEN Head(items).quantity ELSE 0)

RECURSIVE ProductRevenue(_, _)
ProductRevenue(items, productId) ==
    IF items = <<>> THEN Num(0)
    ELSE Plus(ProductRevenue(SubSeq(items, 1, Len(items) - 1), productId),
              IF Matches(items[Len(items)], productId)
              THEN ItemRevenue(items[Len(items)]) ELSE Num(0))

\* Mutant of TurnoverRate: the guard is `!== 0` in place of `> 0`.
TurnoverRateNonZero(sold, totalInventory) ==
    IF totalInventory # 0
    THEN Times(Divide(Num(sold), Num(totalInventory)), Num(100))
    ELSE Num(0)

\* product.totalInventory > 0 ? (totalQuantitySold / product.totalInventory) * 100 : 0
TurnoverRate(sold, totalInventory) ==
    IF totalInventory > 0
    THEN Times(Divide(Num(sold), Num(totalInventory)), Num(100))
    ELSE Num(0)

ProductAnalytics(productId, product, orders) ==
    LET items == LineItemsOf(orders)
        sold  == QuantitySold(items, productId)
    IN  [product |-> [id |-> product.id, title |-> product.title,
                      total_inventory |-> product.totalInventory,
                      variants_count |-> Len(product.variants.edges)],
         sales |-> [total_quantity_sold |-> sold,
                    total_revenue |-> ProductRevenue(items, productId)],
         inventory |-> [current_stock |-> product.totalInventory,
                        turnover_rate |-> TurnoverRate(sold, product.totalInventory)]]

----------------------------------------------------------------------------
(* The switch branches of the call_tool handler, cut at their awaits *)

\* (response.body as any).data: present or a TypeError.
HasData(body) == "data" \in DOMAIN body

\* Mutant of OrdersQueryString: the second clause is appended without " AND ".
OrdersQueryStringUnjoined(status, financial_status) ==
    LET q == IF status # "any" THEN "status:" \o status ELSE ""
    IN  IF financial_status # <<>> /\ financial_status[1] # ""
           /\ financial_status[1] # "any"
        THEN q \o "financial_status:" \o financial_status[1]
        ELSE q

\* let queryString = ""; ... the filter of get_orders ("" when there is none).
OrdersQueryString(status, financial_status) ==
    LET q == IF status # "any" THEN "status:" \o status ELSE ""
    IN  IF financial_status # <<>> /\ financial_status[1] # ""
           /\ financial_status[1] # "any"
        THEN (IF q # "" THEN q \o " AND " ELSE q)
             \o "financial_status:" \o financial_status[1]
        ELSE q

\* Mutant of Limit: the default without the cap of Math.min.
LimitUncapped(args) == NumOr(args, "limit", 50)

\* Math.min((args?.limit as number) || 50, 250)
Limit(args) == Min(NumOr(args, "limit", 50), 250)

\* queryString || undefined
OrUndefined(str) == IF str = "" THEN <<>> ELSE <<str>>

GetOrdersStart(args) ==
    LET status == StrOr(args, "status", "any")
        financial_status == Get(args, "financial_status")
        limit == Limit(args)
        queryString == OrdersQueryString(status, financial_status)
    IN  Send(<< Request(QueryGetOrders,
                        ("first" :> limit) @@ Field("query", OrUndefined(queryString))) >>)

GetFinancialSummaryStart(args, today) ==
    LET days == NumOr(args, "days", 30)
    IN  Send(<< Request(QueryGetFinancialSummary,
                        "query" :> CreatedAtFilter(today, days)) >>)

GetFinancialSummaryFinish(args, body) ==
    LET days == NumOr(args, "days", 30)
    IN  IF ~HasData(body) THEN Throw(TypeError("undefined", "orders"))
        ELSE Return(FinancialSummary(days, body.data.orders.edges))

GetTransactionsStart(args) ==
    IF Falsy(args, "order_id") THEN Throw(Error("order_id is required"))
    ELSE Send(<< Request(QueryGetTransactions, Field("id", Get(args, "order_id"))) >>)

GetInventoryLevelsStart(args) ==
    LET locationId == Get(args, "location_id")
        limit == Limit(args)
    IN  Send(<< Request(QueryGetInventoryLevels,
                        ("first" :> limit)
                        @@ Field("locationId",
                                 IF locationId = <<>> THEN <<>>
                                 ELSE OrUndefined(locationId[1]))) >>)

GetProductsStart(args) ==
    LET status == StrOr(args, "status", "active")
        limit == Limit(args)
    IN  Send(<< Request(QueryGetProducts,
                        ("first" :> limit) @@ ("query" :> "status:" \o status)) >>)

\* Mutant of UpdateInventoryInvalid: `!available` in place of
\* `available === undefined`, which refuses a quantity of 0.
UpdateInventoryInvalidFalsyAvailable(args) ==
    \/ Falsy(args, "inventory_item_id")
    \/ Falsy(args, "location_id")
    \/ "available" \notin DOMAIN args
    \/ args.available = 0

\* !inventoryItemId || !locationId || available === undefined
UpdateInventoryInvalid(args) ==
    \/ Falsy(args, "inventory_item_id")
    \/ Falsy(args, "location_id")
    \/ "available" \notin DOMAIN args

UpdateInventoryStart(args) ==
    IF UpdateInventoryInvalid(args)
    THEN Throw(Error("inventory_item_id, location_id, and available are required"))
    ELSE Send(<< Request(MutationInventorySetQuantities,
                         "input" :>
                           [reason |-> "correction",
                            quantities |->
                              << Field("inventoryItemId", Get(args, "inventory_item_id"))
                                 @@ Field("locationId", Get(args, "location_id"))
                                 @@ ("name" :> "available")
                                 @@ Field("quantity", Get(args, "available")) >>]) >>)

\* The two queries handed to Promise.all.
GetStoreSummaryStart ==
    Send(<< Request(QueryStoreProducts, NoVariables),
            Request(QueryStoreOrders, NoVariables) >>)

\* After Promise.all resolved: the third query.
GetStoreSummaryRecent == Send(<< Request(QueryRecentOrders, NoVariables) >>)

GetStoreSummaryFinish(productsBody, recentOrdersBody) ==
    IF ~HasData(recentOrdersBody) THEN Throw(TypeError("undefined", "orders"))
    ELSE IF ~HasData(productsBody) THEN Throw(TypeError("undefined", "products"))
    ELSE Return(StoreSummary(productsBody.data.products.edges,
                             recentOrdersBody.data.orders.edges))

GetSalesSummaryStart(args, today) ==
    LET days == NumOr(args, "days", 30)
    IN  Send(<< Request(QueryGetSalesSummary,
                        "query" :> CreatedAtFilter(today, days)) >>)

GetSalesSummaryFinish(args, body) ==
    LET days == NumOr(args, "days", 30)
    IN  IF ~HasData(body) THEN Throw(TypeError("undefined", "orders"))
        ELSE Return(SalesSummary(days, body.data.orders.edges))

\* Mutant of GetProductAnalyticsStart: the order scan is issued together with
\* the product query.
GetProductAnalyticsStartBoth(args) ==
    IF Falsy(args, "product_id") THEN Throw(Error("product_id is required"))
    ELSE Send(<< Request(QueryGetProduct, Field("id", Get(args, "product_id"))),
                 Request(QueryGetOrdersForProduct, NoVariables) >>)

GetProductAnalyticsStart(args) ==
    IF Falsy(args, "product_id") THEN Throw(Error("product_id is required"))
    ELSE Send(<< Request(QueryGetProduct, Field("id", Get(args, "product_id"))) >>)

\* After the product query returned: the order scan.
GetProductAnalyticsOrders == Send(<< Request(QueryGetOrdersForProduct, NoVariables) >>)

GetProductAnalyticsFinish(args, productBody, ordersBody) ==
    IF ~HasData(productBody) THEN Throw(TypeError("undefined", "product"))
    ELSE IF ~HasData(ordersBody) THEN Throw(TypeError("undefined", "orders"))
    ELSE IF productBody.data.product = <<>> THEN Throw(TypeError("null", "id"))
    ELSE Return(ProductAnalytics(Get(args, "product_id"), productBody.data.product[1],
                                 ordersBody.data.orders.edges))

\* Mutant of Start: the switch has no case for get_products.
StartWithoutGetProducts(name, args, today) ==
    CASE name = "get_orders" -> GetOrdersStart(args)
      [] name = "get_financial_summary" -> GetFinancialSummaryStart(args, today)
      [] name = "get_transactions" -> GetTransactionsStart(args)
      [] name = "get_inventory_levels" -> GetInventoryLevelsStart(args)
      [] name = "update_inventory" -> UpdateInventoryStart(args)
      [] name = "get_store_summary" -> GetStoreSummaryStart
      [] name = "get_sales_summary" -> GetSalesSummaryStart(args, today)
      [] name = "get_product_analytics" -> GetProductAnalyticsStart(args)
      [] OTHER -> Throw(Error("Unknown tool: " \o name))

\* The handler from its entry to its first await (or to its return).
Start(name, args, today) ==
    CASE name = "get_orders" -> GetOrdersStart(args)
      [] name = "get_financial_summary" -> GetFinancialSummaryStart(args, today)
      [] name = "get_transactions" -> GetTransactionsStart(args)
      [] name = "get_inventory_levels" -> GetInventoryLevelsStart(args)
      [] name = "get_products" -> GetProductsStart(args)
      [] name = "update_inventory" -> UpdateInventoryStart(args)
      [] name = "get_store_summary" -> GetStoreSummaryStart
      [] name = "get_sales_summary" -> GetSalesSummaryStart(args, today)
      [] name = "get_product_analytics" -> GetProductAnalyticsStart(args)
      [] OTHER -> Throw(Error("Unknown tool: " \o name))

\* The handler resumed once every call it awaits has returned; `bodies` are
\* the bodies of the calls sent so far, by call index.
Resume(name, args, bodies) ==
    CASE name = "get_financial_summary" -> GetFinancialSummaryFinish(args, bodies[1])
      [] name = "get_sales_summary" -> GetSalesSummaryFinish(args, bodies[1])
      [] name = "get_store_summary" ->
           IF Len(bodies) = 2 THEN GetStoreSummaryRecent
           ELSE GetStoreSummaryFinish(bodies[1], bodies[3])
      [] name = "get_product_analytics" ->
           IF Len(bodies) = 1 THEN GetProductAnalyticsOrders
           ELSE GetProductAnalyticsFinish(args, bodies[1], bodies[2])
      [] OTHER -> Return(bodies[1])

----------------------------------------------------------------------------
(* The server *)

NoCall == [name |-> "", args |-> <<>>]

Init ==
    /\ now = 0
    /\ pc = [i \in Invocations |-> "idle"]
    /\ call = [i \in Invocations |-> NoCall]
    /\ sent = [i \in Invocations |-> <<>>]
    /\ settled = [i \in Invocations |-> <<>>]
    /\ caught = [i \in Invocations |-> <<>>]
    /\ payload = [i \in Invocations |-> <<>>]
    /\ result = [i \in Invocations |-> <<>>]

\* Mutant of Pending: the upstream transport is locked by an awaiting request,
\* so that no call settles while another request awaits.
PendingWhenAlone(i) ==
    IF \E j \in DOMAIN pc : j # i /\ pc[j] = "await" THEN {}
    ELSE (1..Len(sent[i])) \ DOMAIN settled[i]

\* The upstream calls of request i that have not settled.
Pending(i) == (1..Len(sent[i])) \ DOMAIN settled[i]

\* Mutant of TryCatch: only an Error is caught, any other value escapes.
TryCatchErrorsOnly(step) ==
    IF step.do = "throw" /\ step.error.instanceofError
    THEN [do |-> "caught", error |-> step.error]
    ELSE step

\* try { switch ... } catch (error) { ... }: what the switch throws is caught.
TryCatch(step) ==
    IF step.do = "throw" THEN [do |-> "caught", error |-> step.error] ELSE step

\* Mutant of Proceed: the envelope is kept in one variable of the module,
\* shared by the requests in flight.
ProceedSharedResult(i, step) ==
    CASE step.do = "send" ->
           /\ sent' = [sent EXCEPT ![i] = @ \o step.requests]
           /\ pc' = [pc EXCEPT ![i] = "await"]
           /\ UNCHANGED <<caught, payload, result>>
      [] step.do = "return" ->
           /\ payload' = [payload EXCEPT ![i] = <<step.value>>]
           /\ result' = [j \in DOMAIN result |-> <<step.envelope>>]
           /\ pc' = [pc EXCEPT ![i] = "done"]
           /\ UNCHANGED <<sent, caught>>
      [] step.do = "caught" ->
           /\ caught' = [caught EXCEPT ![i] = <<step.error>>]
           /\ result' = [j \in DOMAIN result |-> <<CatchEnvelope(step.error)>>]
           /\ pc' = [pc EXCEPT ![i] = "done"]
           /\ UNCHANGED <<sent, payload>>
      [] step.do = "throw" ->
           /\ pc' = [pc EXCEPT ![i] = "rejected"]
           /\ UNCHANGED <<sent, caught, payload, result>>

\* The handler of request i runs to its next await, to its return, or into
\* its catch block, which returns the error envelope; a throw that nothing
\* catches rejects the handler.
Proceed(i, step) ==
    CASE step.do = "send" ->
           /\ sent' = [sent EXCEPT ![i] = @ \o step.requests]
           /\ pc' = [pc EXCEPT ![i] = "await"]
           /\ UNCHANGED <<caught, payload, result>>
      [] step.do = "return" ->
           /\ payload' = [payload EXCEPT ![i] = <<step.value>>]
           /\ result' = [result EXCEPT ![i] = <<step.envelope>>]
           /\ pc' = [pc EXCEPT ![i] = "done"]
           /\ UNCHANGED <<sent, caught>>
      [] step.do = "caught" ->
           /\ caught' = [caught EXCEPT ![i] = <<step.error>>]
           /\ result' = [result EXCEPT ![i] = <<CatchEnvelope(step.error)>>]
           /\ pc' = [pc EXCEPT ![i] = "done"]
           /\ UNCHANGED <<sent, payload>>
      [] step.do = "throw" ->
           /\ pc' = [pc EXCEPT ![i] = "rejected"]
           /\ UNCHANGED <<sent, caught, payload, result>>

\* A call_tool request arrives: the handler runs up to its first await.
CallTool(i, name, args) ==
    /\ pc[i] = "idle"
    /\ call' = [call EXCEPT ![i] = [name |-> name, args |-> args]]
    /\ Proceed(i, TryCatch(Start(name, args, now)))
    /\ UNCHANGED <<now, settled>>

\* The upstream answers call k of request i; the handler resumes once every
\* call it awaits has been answered.
UpstreamReturn(i, k, body) ==
    /\ pc[i] = "await"
    /\ k \in Pending(i)
    /\ LET answers == (k :> [ok |-> TRUE, body |-> body]) @@ settled[i]
       IN  /\ settled' = [settled EXCEPT ![i] = answers]
           /\ IF DOMAIN answers = 1..Len(sent[i])
              THEN Proceed(i, TryCatch(Resume(call[i].name, call[i].args,
                                     [j \in 1..Len(sent[i]) |-> answers[j].body])))
              ELSE UNCHANGED <<pc, sent, caught, payload, result>>
    /\ UNCHANGED <<now, call>>

\* Mutant of UpstreamRaise: a call that raised is issued once more.
UpstreamRaiseRetried(i, k, error) ==
    /\ pc[i] = "await"
    /\ k \in Pending(i)
    /\ settled' = [settled EXCEPT ![i] = (k :> [ok |-> FALSE, error |-> error]) @@ @]
    /\ IF Len(sent[i]) < 4
       THEN /\ sent' = [sent EXCEPT ![i] = Append(@, sent[i][k])]
            /\ UNCHANGED <<pc, caught, payload, result>>
       ELSE Proceed(i, TryCatch(Throw(error)))
    /\ UNCHANGED <<now, call>>

\* The upstream raises on call k of request i: the await rethrows it.
UpstreamRaise(i, k, error) ==
    /\ pc[i] = "await"
    /\ k \in Pending(i)
    /\ settled' = [settled EXCEPT ![i] = (k :> [ok |-> FALSE, error |-> error]) @@ @]
    /\ Proceed(i, TryCatch(Throw(error)))
    /\ UNCHANGED <<now, call>>

\* A call left in flight by a rejected Promise.all settles: nothing awaits it.
SettleIgnored(i, k, ok) ==
    /\ pc[i] = "done"
    /\ k \in Pending(i)
    /\ settled' = [settled EXCEPT ![i] = (k :> [ok |-> ok]) @@ @]
    /\ UNCHANGED <<now, pc, call, sent, caught, payload, result>>

\* The envelope is handed to the transport; the request is over.
Respond(i) ==
    /\ pc[i] = "done"
    /\ pc' = [pc EXCEPT ![i] = "idle"]
    /\ call' = [call EXCEPT ![i] = NoCall]
    /\ sent' = [sent EXCEPT ![i] = <<>>]
    /\ settled' = [settled EXCEPT ![i] = <<>>]
    /\ caught' = [caught EXCEPT ![i] = <<>>]
    /\ payload' = [payload EXCEPT ![i] = <<>>]
    /\ result' = [result EXCEPT ![i] = <<>>]
    /\ UNCHANGED now

\* Time passes.
Tick ==
    /\ now < MaxClock
    /\ now' = now + 1
    /\ UNCHANGED <<pc, call, sent, settled, caught, payload, result>>

Next ==
    \/ \E i \in Invocations, name \in RequestNames :
          \E args \in ArgsOf(name) : CallTool(i, name, args)
    \/ \E i \in Invocations :
          \E k \in Pending(i) :
             \E body \in BodiesFor(sent[i][k]) : UpstreamReturn(i, k, body)
    \/ \E i \in Invocations :
          \E k \in Pending(i), error \in UpstreamErrors : UpstreamRaise(i, k, error)
    \/ \E i \in Invocations :
          \E k \in Pending(i), ok \in BOOLEAN : SettleIgnored(i, k, ok)
    \/ \E i \in Invocations : Respond(i)
    \/ Tick

Spec == Init /\ [][Next]_vars

----------------------------------------------------------------------------
(* get_sales_summary over a page that sells many products *)

\* A line item of product number k.
ProductLine(k, quantity) ==
    LineItem("Item " \o ToString(k), quantity, Amount5,
             <<[id |-> "P" \o ToString(k), title |-> "Product " \o ToString(k)]>>)

\* The bodies of getSalesSummary with one order of up to MaxProducts line
\* items, each of a product of its own, in quantity 1 or 2.
ManyProductsBodies ==
    UNION { { OrdersBody(<< [totalPriceSet |-> ShopMoney(Amount25, "USD"),
                             customer |-> <<>>,
                             lineItems |-> Edges([k \in 1..n |-> ProductLine(k, q[k])])] >>) :
                q \in [1..n -> {1, 2}] } :
            n \in 0..MaxProducts }

NextManyProducts ==
    \/ \E i \in Invocations :
          \E args \in ArgsOf("get_sales_summary") : CallTool(i, "get_sales_summary", args)
    \/ \E i \in Invocations :
          \E k \in Pending(i), body \in ManyProductsBodies : UpstreamReturn(i, k, body)
    \/ \E i \in Invocations : Respond(i)

\* The server answering get_sales_summary calls over such pages.
SpecManyProducts == Init /\ [][NextManyProducts]_vars

----------------------------------------------------------------------------
(* Two requests served concurrently, and list_tools *)

ConcurrentInvocations == {"r1", "r2"}

InitConcurrent ==
    /\ now = 0
    /\ pc = [i \in ConcurrentInvocations |-> "idle"]
    /\ call = [i \in ConcurrentInvocations |-> NoCall]
    /\ sent = [i \in ConcurrentInvocations |-> <<>>]
    /\ settled = [i \in ConcurrentInvocations |-> <<>>]
    /\ caught = [i \in ConcurrentInvocations |-> <<>>]
    /\ payload = [i \in ConcurrentInvocations |-> <<>>]
    /\ result = [i \in ConcurrentInvocations |-> <<>>]

\* The names asked for by the concurrent requests.
ConcurrentNames == CatalogNames \cup {"get_customers"}

\* The argument objects of the concurrent requests.
ConcurrentArgsOf(name) ==
    CASE name = "get_orders" -> {<<>>, "status" :> "open"}
      [] name \in {"get_financial_summary", "get_sales_summary"} -> {<<>>, "days" :> 7}
      [] name = "get_transactions" -> {<<>>, "order_id" :> "gid://1"}
      [] name = "update_inventory" ->
           {<<>>, [inventory_item_id |-> "gid://1", location_id |-> "gid://1",
                   available |-> 5]}
      [] name = "get_product_analytics" -> {"product_id" :> "P1"}
      [] OTHER -> {<<>>}

\* The bodies the upstream answers the concurrent requests with.
ConcurrentBodiesFor(request) ==
    LET q  == request.query
        w2 == LineItem("Widget", 2, Amount10, Widget)
    IN  CASE q \in {QueryGetFinancialSummary, QueryRecentOrders} ->
               {OrdersBody(<<>>),
                OrdersBody(<<[totalPriceSet |-> ShopMoney(Amount10, "EUR"),
                              financialStatus |-> "PAID"]>>)}
          [] q = QueryGetSalesSummary ->
               {OrdersBody(<<[totalPriceSet |-> ShopMoney(Amount25, "USD"),
                              customer |-> <<[id |-> "C1"]>>,
                              lineItems |-> Edges(<<w2>>)]>>),
                MalformedBody}
          [] q = QueryGetOrdersForProduct ->
               {OrdersBody(<<>>), OrdersBody(<<[lineItems |-> Edges(<<w2>>)]>>)}
          [] q = QueryStoreProducts -> {ProductsBody(1)}
          [] q = QueryStoreOrders -> {OrdersBody(<<[id |-> "O1"]>>)}
          [] q = QueryGetProduct ->
               {ProductBody(<<>>)}
               \cup {ProductBody(<<Product(id, 2)>>) : id \in Range(request.variables)}
          [] OTHER -> {[data |-> "payload"]}

\* server.setRequestHandler(ListToolsRequestSchema, ...): returns the catalog.
ListTools(i) ==
    /\ pc[i] = "idle"
    /\ result' = [result EXCEPT ![i] = <<[tools |-> TOOLS]>>]
    /\ pc' = [pc EXCEPT ![i] = "done"]
    /\ UNCHANGED <<now, call, sent, settled, caught, payload>>

NextConcurrent ==
    \/ \E i \in ConcurrentInvocations, name \in ConcurrentNames :
          \E args \in ConcurrentArgsOf(name) : CallTool(i, name, args)
    \/ \E i \in ConcurrentInvocations : ListTools(i)
    \/ \E i \in ConcurrentInvocations :
          \E k \in Pending(i) :
             \E body \in ConcurrentBodiesFor(sent[i][k]) : UpstreamReturn(i, k, body)
    \/ \E i \in ConcurrentInvocations :
          \E k \in Pending(i), error \in UpstreamErrors : UpstreamRaise(i, k, error)
    \/ \E i \in ConcurrentInvocations :
          \E k \in Pending(i), ok \in BOOLEAN : SettleIgnored(i, k, ok)
    \/ \E i \in ConcurrentInvocations : Respond(i)
    \/ Tick

SpecConcurrent == InitConcurrent /\ [][NextConcurrent]_vars

----------------------------------------------------------------------------
(* An upstream call that hangs *)

\* The upstream calls that never settle: the first call of request r1.
HungCalls == {<<"r1", 1>>}

\* The upstream settles call k of request i: it returns a body or raises.
Settle(i, k) ==
    /\ <<i, k>> \notin HungCalls
    /\ k \in Pending(i)
    /\ \/ \E body \in ConcurrentBodiesFor(sent[i][k]) : UpstreamReturn(i, k, body)
       \/ \E error \in UpstreamErrors : UpstreamRaise(i, k, error)

NextHung ==
    \/ \E i \in ConcurrentInvocations, name \in ConcurrentNames :
          \E args \in ConcurrentArgsOf(name) : CallTool(i, name, args)
    \/ \E i \in ConcurrentInvocations :
          \E k \in Pending(i) : Settle(i, k)
    \/ \E i \in ConcurrentInvocations :
          \E k \in Pending(i), ok \in BOOLEAN :
             <<i, k>> \notin HungCalls /\ SettleIgnored(i, k, ok)
    \/ \E i \in ConcurrentInvocations : Respond(i)

\* Every upstream call that does not hang eventually returns or raises, and
\* the event loop then resumes the handler that awaits it.
FairUpstream ==
    \A i \in ConcurrentInvocations : \A k \in 1..3 : WF_vars(Settle(i, k))

SpecHung == InitConcurrent /\ [][NextHung]_vars /\ FairUpstream

----------------------------------------------------------------------------
(* The claims *)

\* The error envelope carrying `message`.
ErrorEnvelopeOf(message) ==
    [content |-> << [type |-> "text", text |-> "Error: " \o message] >>,
     isError |-> TRUE]

\* The envelope returned for request i reports an error.
IsErrorResult(i) ==
    /\ Len(result[i]) = 1
    /\ "isError" \in DOMAIN result[i][1]
    /\ result[i][1].isError = TRUE

\* C1: the call_tool handler never raises: every value thrown in the switch
\* (an unknown name, a missing argument, an upstream error, a malformed
\* upstream body) is caught and answered with exactly the envelope
\* {content: [{type: "text", text: "Error: " + message}], isError: true},
\* and the request can then be answered and the next one served.
C1_NeverRaises ==
    \A i \in Invocations :
        /\ pc[i] # "rejected"
        /\ pc[i] = "done" => Len(result[i]) = 1
        /\ (\E k \in DOMAIN settled[i] : ~settled[i][k].ok) => caught[i] # <<>>
        /\ caught[i] # <<>> =>
             /\ pc[i] = "done"
             /\ result[i] =
                  << ErrorEnvelopeOf(IF caught[i][1].instanceofError
                                     THEN caught[i][1].message
                                     ELSE caught[i][1].string) >>
        /\ pc[i] = "done" => ENABLED (Respond(i) /\ pc'[i] = "idle")
        /\ pc[i] = "idle" => ENABLED CallTool(i, "get_store_summary", <<>>)

\* C1 witness: a malformed body of the third query of get_store_summary was
\* answered with the error envelope.
C1_Witness ==
    \E i \in Invocations :
        /\ pc[i] = "done"
        /\ Len(sent[i]) = 3
        /\ caught[i] = <<TypeError("undefined", "orders")>>
        /\ IsErrorResult(i)

\* C2: a name outside the nine catalog names is answered with the error
\* envelope "Unknown tool: <name>", without raising and without any
\* upstream call; a catalog name never gives that message.
C2_UnknownTool ==
    /\ Cardinality(CatalogNames) = 9
    /\ \A i \in Invocations :
          pc[i] # "idle" =>
             IF call[i].name \in CatalogNames
             THEN IsErrorResult(i) =>
                     \A n \in RequestNames :
                        result[i][1].content[1].text # "Error: Unknown tool: " \o n
             ELSE /\ pc[i] = "done"
                  /\ sent[i] = <<>>
                  /\ result[i] = <<ErrorEnvelopeOf("Unknown tool: " \o call[i].name)>>

\* C2 witness: the unknown name get_customers was answered.
C2_Witness ==
    \E i \in Invocations :
        /\ pc[i] = "done"
        /\ call[i].name = "get_customers"
        /\ IsErrorResult(i)

\* The tools whose upstream body is returned as it is.
PassThroughNames ==
    {"get_orders", "get_transactions", "get_inventory_levels", "get_products",
     "update_inventory"}

\* C3 (as amended): a successful invocation returns an envelope with no
\* isError field, whose content is exactly one {type: "text"} entry whose
\* text is JSON.stringify(result, null, 2) of the aggregated result (the
\* upstream body itself for the pass-through tools); isError is present, and
\* true, exactly when the invocation failed.
C3_SuccessEnvelope ==
    \A i \in Invocations :
        pc[i] = "done" =>
            /\ Len(result[i]) = 1
            /\ IsErrorResult(i) <=> caught[i] # <<>>
            /\ caught[i] = <<>> =>
                 /\ DOMAIN result[i][1] = {"content"}
                 /\ Len(result[i][1].content) = 1
                 /\ DOMAIN result[i][1].content[1] = {"type", "text"}
                 /\ result[i][1].content[1].type = "text"
                 /\ Len(payload[i]) = 1
                 /\ result[i][1].content[1].text = JSONStringify(payload[i][1], 2)
                 /\ call[i].name \in PassThroughNames =>
                       payload[i][1] = settled[i][1].body

\* C3 witness: get_store_summary succeeded after its three queries.
C3_Witness ==
    \E i \in Invocations :
        /\ pc[i] = "done"
        /\ call[i].name = "get_store_summary"
        /\ caught[i] = <<>>
        /\ Len(result[i]) = 1

\* C3 as stated: a successful invocation returns an envelope whose isError
\* flag is false.
C3_Original ==
    \A i \in Invocations :
        (pc[i] = "done" /\ caught[i] = <<>>) =>
            /\ Len(result[i]) = 1
            /\ "isError" \in DOMAIN result[i][1]
            /\ result[i][1].isError = FALSE

\* The required fields of the tool `name`, from the catalog.
RequiredOf(name) ==
    UNION {TOOLS[k].required : k \in {j \in DOMAIN TOOLS : TOOLS[j].name = name}}

\* The pieces that may surround a field name in a message.
MessageParts ==
    {"", " is required", "inventory_item_id, ", "inventory_item_id, location_id, and ",
     ", location_id, and available are required", ", and available are required",
     " are required"}

\* The error text names `field`.
Names(text, field) ==
    \E a \in MessageParts, b \in MessageParts : text = "Error: " \o a \o field \o b

\* C4: when a required field of get_transactions, get_product_analytics or
\* update_inventory is absent, the invocation returns an error envelope whose
\* message names the missing field, and no upstream request is sent.
C4_MissingRequired ==
    \A i \in Invocations :
        LET missing == RequiredOf(call[i].name) \ DOMAIN call[i].args
        IN  (pc[i] # "idle" /\ missing # {}) =>
                /\ pc[i] = "done"
                /\ sent[i] = <<>>
                /\ IsErrorResult(i)
                /\ \A f \in missing : Names(result[i][1].content[1].text, f)

\* C4 witness: update_inventory without `available` (the ids given) was refused.
C4_Witness ==
    \E i \in Invocations :
        /\ pc[i] = "done"
        /\ call[i].name = "update_inventory"
        /\ DOMAIN call[i].args = {"inventory_item_id", "location_id"}
        /\ call[i].args.inventory_item_id # ""
        /\ call[i].args.location_id # ""
        /\ IsErrorResult(i)

\* Request i is an update_inventory call that gives all three fields.
UpdateInventoryGiven(i) ==
    /\ pc[i] # "idle"
    /\ call[i].name = "update_inventory"
    /\ DOMAIN call[i].args = {"inventory_item_id", "location_id", "available"}

\* Request i sent exactly one mutation, with reason "correction" and the one
\* quantity entry {inventoryItemId, locationId, name: "available", quantity}.
OneCorrection(i) ==
    /\ Len(sent[i]) = 1
    /\ sent[i][1].query = MutationInventorySetQuantities
    /\ DOMAIN sent[i][1].variables = {"input"}
    /\ sent[i][1].variables.input.reason = "correction"
    /\ sent[i][1].variables.input.quantities =
          << [inventoryItemId |-> call[i].args.inventory_item_id,
              locationId |-> call[i].args.location_id,
              name |-> "available",
              quantity |-> call[i].args.available] >>

\* C5 (as amended): update_inventory with non-empty inventory_item_id and
\* location_id and any number as available (0 included) sends exactly one
\* mutation, whose variables hold reason "correction" and exactly one
\* quantity entry: name "available", the two ids and the given quantity.
C5_UpdateInventory ==
    \A i \in Invocations :
        ( /\ UpdateInventoryGiven(i)
          /\ call[i].args.inventory_item_id # ""
          /\ call[i].args.location_id # "" ) => OneCorrection(i)

\* C5 witness: update_inventory with available = 0 sent its mutation.
C5_Witness ==
    \E i \in Invocations :
        /\ UpdateInventoryGiven(i)
        /\ call[i].args.available = 0
        /\ OneCorrection(i)

\* C5 as stated: update_inventory with all three fields specified sends
\* exactly one mutation with that entry.
C5_Original ==
    \A i \in Invocations : UpdateInventoryGiven(i) => OneCorrection(i)

\* The tools that send a page size.
LimitNames == {"get_orders", "get_inventory_levels", "get_products"}

\* C6: for get_orders, get_inventory_levels and get_products the `first`
\* variable sent upstream is within 1..250, whatever limit the caller gives.
C6_FirstInRange ==
    \A i \in Invocations :
        (call[i].name \in LimitNames /\ Len(sent[i]) >= 1) =>
            sent[i][1].variables.first \in 1..250

\* C7: get_orders sends first = 250 for a limit above 250, first = 50 for a
\* limit of 0 or no limit, and the limit itself when it is within 1..250.
C7_GetOrdersLimit ==
    \A i \in Invocations :
        (pc[i] # "idle" /\ call[i].name = "get_orders") =>
            /\ Len(sent[i]) = 1
            /\ LET args == call[i].args
                   first == sent[i][1].variables.first
               IN  /\ "limit" \notin DOMAIN args => first = 50
                   /\ "limit" \in DOMAIN args =>
                        /\ args.limit > 250 => first = 250
                        /\ args.limit = 0 => first = 50
                        /\ args.limit \in 1..250 => first = args.limit

\* C7 witness: get_orders with limit 1000 sent first = 250.
C7_Witness ==
    \E i \in Invocations :
        /\ call[i].name = "get_orders"
        /\ "limit" \in DOMAIN call[i].args
        /\ call[i].args.limit = 1000
        /\ Len(sent[i]) = 1
        /\ sent[i][1].variables.first = 250

\* The clause of key k in the filter of get_orders, if any, when the values
\* in `none` give no clause.
Clause(args, k, none) ==
    IF k \in DOMAIN args /\ args[k] \notin none THEN <<k \o ":" \o args[k]>> ELSE <<>>

\* The `query` variable of request i is the clauses joined by " AND ", and is
\* not sent when there is none.
FilterIs(i, status, financial) ==
    LET variables == sent[i][1].variables
    IN  IF status = <<>> /\ financial = <<>> THEN "query" \notin DOMAIN variables
        ELSE /\ "query" \in DOMAIN variables
             /\ variables.query =
                  (IF status = <<>> THEN financial[1]
                   ELSE IF financial = <<>> THEN status[1]
                   ELSE status[1] \o " AND " \o financial[1])

\* C8 (as amended): in the filter of get_orders a status or financial_status
\* that is "any", omitted or the empty string gives no clause; any other
\* value, in the enumerated set or not, gives `status:<value>` or
\* `financial_status:<value>` verbatim; two clauses are joined by one " AND ",
\* status first; with no clause no filter is sent.
C8_OrdersFilter ==
    \A i \in Invocations :
        (pc[i] # "idle" /\ call[i].name = "get_orders") =>
            /\ Len(sent[i]) = 1
            /\ FilterIs(i, Clause(call[i].args, "status", {"any", ""}),
                        Clause(call[i].args, "financial_status", {"any", ""}))

\* C8 witness: a status and a financial_status outside the enumerated sets
\* were sent joined.
C8_Witness ==
    \E i \in Invocations :
        /\ call[i].name = "get_orders"
        /\ Len(sent[i]) = 1
        /\ "query" \in DOMAIN sent[i][1].variables
        /\ sent[i][1].variables.query = "status:shipped AND financial_status:overdue"

\* C8 as stated: only "any" and an omitted value give no clause.
C8_Original ==
    \A i \in Invocations :
        (pc[i] # "idle" /\ call[i].name = "get_orders") =>
            /\ Len(sent[i]) = 1
            /\ FilterIs(i, Clause(call[i].args, "status", {"any"}),
                        Clause(call[i].args, "financial_status", {"any"}))

\* The number a decimal string of the model stands for.
AmountValue(amount) ==
    CASE amount = Amount5 -> Num(5)
      [] amount = Amount10 -> Num(10)
      [] amount = Amount25 -> Rat(51, 2)

\* The sum of the order totals of a page.
RECURSIVE SumOfTotals(_)
SumOfTotals(orders) ==
    IF orders = <<>> THEN Num(0)
    ELSE Plus(AmountValue(Head(orders).node.totalPriceSet.shopMoney.amount),
              SumOfTotals(Tail(orders)))

\* Request i ended with the summary of tool `name`.
Summarised(i, name) ==
    /\ pc[i] = "done"
    /\ call[i].name = name
    /\ caught[i] = <<>>
    /\ Len(payload[i]) = 1

\* The page of orders returned to call k of request i.
OrdersOf(i, k) == settled[i][k].body.data.orders.edges

\* C9: get_financial_summary over a page of n orders of total revenue R gives
\* total_orders = n and total_revenue = R; for n > 0, average_order_value =
\* R / n and the currency of the first order; for n = 0, average_order_value
\* = 0 and currency "USD".
C9_FinancialSummary ==
    \A i \in Invocations :
        Summarised(i, "get_financial_summary") =>
            LET orders  == OrdersOf(i, 1)
                n       == Len(orders)
                R       == SumOfTotals(orders)
                summary == payload[i][1]
                average == summary.average_order_value
            IN  /\ summary.total_orders = n
                /\ summary.total_revenue = R
                /\ n > 0 =>
                     /\ average.den > 0
                     /\ average.num * n * R.den = R.num * average.den
                     /\ summary.currency =
                          orders[1].node.totalPriceSet.shopMoney.currencyCode
                /\ n = 0 =>
                     /\ average = Num(0)
                     /\ summary.currency = "USD"

\* C9 witness: two orders of 10.00 and 25.50 EUR gave an average of 17.75.
C9_Witness ==
    \E i \in Invocations :
        /\ Summarised(i, "get_financial_summary")
        /\ payload[i][1].total_orders = 2
        /\ payload[i][1].currency = "EUR"
        /\ payload[i][1].average_order_value = [num |-> 71, den |-> 4]

\* The key the code groups a line item under.
KeyOf(item) == IF item.product = <<>> THEN "unknown" ELSE item.product[1].id

RECURSIVE QuantityOfKey(_, _)
QuantityOfKey(items, key) ==
    IF items = <<>> THEN 0
    ELSE (IF KeyOf(Head(items)) = key THEN Head(items).quantity ELSE 0)
         + QuantityOfKey(Tail(items), key)

RECURSIVE RevenueOfKey(_, _)
RevenueOfKey(items, key) ==
    IF items = <<>> THEN Num(0)
    ELSE Plus(IF KeyOf(Head(items)) = key
              THEN Times(Num(Head(items).quantity),
                         AmountValue(Head(items).originalUnitPriceSet.shopMoney.amount))
              ELSE Num(0),
              RevenueOfKey(Tail(items), key))

\* The title of the first line item grouped under `key`.
FirstTitleOfKey(items, key) ==
    LET first == CHOOSE k \in DOMAIN items :
                    /\ KeyOf(items[k]) = key
                    /\ \A j \in 1..(k - 1) : KeyOf(items[j]) # key
    IN  IF items[first].product = <<>> THEN items[first].title
        ELSE items[first].product[1].title

\* C10 (as amended): get_sales_summary accumulates quantity and revenue
\* (quantity x unit price) over all line items of all returned orders, one
\* entry per product identifier; the line items with no linked product all go
\* to the one entry "unknown", titled by the first of them. (With at most 10
\* entries, top_products holds them all.)
C10_ProductSales ==
    \A i \in Invocations :
        Summarised(i, "get_sales_summary") =>
            LET items == LineItemsOf(OrdersOf(i, 1))
                keys  == {KeyOf(items[k]) : k \in DOMAIN items}
                top   == payload[i][1].top_products
            IN  /\ Len(top) = Cardinality(keys)
                /\ \A key \in keys :
                      \E k \in DOMAIN top :
                         /\ top[k].product_id = key
                         /\ top[k].quantity_sold = QuantityOfKey(items, key)
                         /\ top[k].revenue = RevenueOfKey(items, key)
                         /\ top[k].title = FirstTitleOfKey(items, key)

\* C10 witness: two orders with line items of P1, quantities 2 and 3 at unit
\* price 10, gave the one entry with quantity_sold 5 and revenue 50.
C10_Witness ==
    \E i \in Invocations :
        /\ Summarised(i, "get_sales_summary")
        /\ payload[i][1].total_orders = 2
        /\ payload[i][1].top_products =
              << [product_id |-> "P1", title |-> "Widget", quantity_sold |-> 5,
                  revenue |-> Num(50)] >>

\* C10 as stated: a line item with no linked product is keyed by its title,
\* so such line items are grouped per title.
C10_Original ==
    \A i \in Invocations :
        Summarised(i, "get_sales_summary") =>
            LET items == LineItemsOf(OrdersOf(i, 1))
                top   == payload[i][1].top_products
            IN  \A j \in DOMAIN items :
                   items[j].product = <<>> =>
                      \E k \in DOMAIN top : top[k].product_id = items[j].title

\* The position of the first line item grouped under `key`.
FirstOfKey(items, key) ==
    CHOOSE k \in DOMAIN items :
        /\ KeyOf(items[k]) = key
        /\ \A j \in 1..(k - 1) : KeyOf(items[j]) # key

\* C11: top_products of get_sales_summary holds at most 10 entries (the 10
\* first of the sorted products, or all of them when there are fewer), each a
\* product of the page with its accumulated revenue, in descending order of
\* revenue; entries of equal revenue are in the order their products were
\* first encountered; no omitted product has a revenue greater than that of
\* an included one.
C11_TopProducts ==
    \A i \in Invocations :
        Summarised(i, "get_sales_summary") =>
            LET items    == LineItemsOf(OrdersOf(i, 1))
                keys     == {KeyOf(items[k]) : k \in DOMAIN items}
                top      == payload[i][1].top_products
                included == {top[k].product_id : k \in DOMAIN top}
            IN  /\ Len(top) <= 10
                /\ Len(top) = Min(10, Cardinality(keys))
                /\ included \subseteq keys
                /\ Cardinality(included) = Len(top)
                /\ \A k \in DOMAIN top :
                      top[k].revenue = RevenueOfKey(items, top[k].product_id)
                /\ \A k \in DOMAIN top, j \in DOMAIN top :
                      k < j =>
                        /\ ~Greater(top[j].revenue, top[k].revenue)
                        /\ top[j].revenue = top[k].revenue =>
                              FirstOfKey(items, top[k].product_id)
                                 < FirstOfKey(items, top[j].product_id)
                /\ \A key \in keys \ included, k \in DOMAIN top :
                      ~Greater(RevenueOfKey(items, key), top[k].revenue)

\* C11 witness: of 11 products, the first sold once and the others twice;
\* the list holds the ten others in their encounter order and omits the first.
C11_Witness ==
    \E i \in Invocations :
        /\ Summarised(i, "get_sales_summary")
        /\ Len(LineItemsOf(OrdersOf(i, 1))) = 11
        /\ Len(payload[i][1].top_products) = 10
        /\ \A k \in 1..10 :
              /\ payload[i][1].top_products[k].product_id = "P" \o ToString(k + 1)
              /\ payload[i][1].top_products[k].revenue = Num(10)

\* C12: unique_customers of get_sales_summary is the number of distinct
\* customer ids among the returned orders: an order with no customer is not
\* counted, and several orders of one customer count once.
C12_UniqueCustomers ==
    \A i \in Invocations :
        Summarised(i, "get_sales_summary") =>
            LET orders == OrdersOf(i, 1)
                with   == {k \in DOMAIN orders : orders[k].node.customer # <<>>}
                ids    == {orders[k].node.customer[1].id : k \in with}
                unique == payload[i][1].unique_customers
            IN  /\ unique = Cardinality(ids)
                /\ unique <= Cardinality(with)
                /\ with = {} => unique = 0
                /\ (\A k \in with, j \in with :
                       orders[k].node.customer = orders[j].node.customer) =>
                      unique = (IF with = {} THEN 0 ELSE 1)

\* C12 witness: two orders of the same customer were counted as one customer.
C12_Witness ==
    \E i \in Invocations :
        /\ Summarised(i, "get_sales_summary")
        /\ Len(OrdersOf(i, 1)) = 2
        /\ \A k \in 1..2 : OrdersOf(i, 1)[k].node.customer = <<[id |-> "C1"]>>
        /\ payload[i][1].unique_customers = 1

\* The product returned to the first query of request i.
ProductOf(i) == settled[i][1].body.data.product[1]

\* `rate` is (sold / stock) x 100, for a stock other than 0.
IsTurnover(rate, sold, stock) ==
    /\ rate.den > 0
    /\ rate.num * stock = sold * 100 * rate.den

\* C13 (as amended): turnover_rate of get_product_analytics is (total
\* quantity sold / current stock) x 100 when the product's total inventory
\* is positive, and 0 when it is 0 or negative, whatever was sold; no
\* division by zero occurs.
C13_TurnoverRate ==
    \A i \in Invocations :
        Summarised(i, "get_product_analytics") =>
            LET stock == ProductOf(i).totalInventory
                sold  == payload[i][1].sales.total_quantity_sold
                rate  == payload[i][1].inventory.turnover_rate
            IN  /\ ~IsNaN(rate)
                /\ payload[i][1].inventory.current_stock = stock
                /\ stock > 0 => IsTurnover(rate, sold, stock)
                /\ stock <= 0 => rate = Num(0)

\* C13 witness: 5 units sold of a product with 2 in stock gave a rate of 250.
C13_Witness ==
    \E i \in Invocations :
        /\ Summarised(i, "get_product_analytics")
        /\ ProductOf(i).totalInventory = 2
        /\ payload[i][1].sales.total_quantity_sold = 5
        /\ payload[i][1].inventory.turnover_rate = Num(250)

\* C13 as stated: the rate is (sold / stock) x 100 for every total inventory
\* other than 0, and 0 when it is 0.
C13_Original ==
    \A i \in Invocations :
        Summarised(i, "get_product_analytics") =>
            LET stock == ProductOf(i).totalInventory
                sold  == payload[i][1].sales.total_quantity_sold
                rate  == payload[i][1].inventory.turnover_rate
            IN  /\ stock # 0 => IsTurnover(rate, sold, stock)
                /\ stock = 0 => rate = Num(0)

\* The line item is of the product `id`.
IsOfProduct(item, id) == item.product # <<>> /\ item.product[1].id = id

RECURSIVE QuantityOfProduct(_, _)
QuantityOfProduct(items, id) ==
    IF items = <<>> THEN 0
    ELSE (IF IsOfProduct(Head(items), id) THEN Head(items).quantity ELSE 0)
         + QuantityOfProduct(Tail(items), id)

RECURSIVE RevenueOfProduct(_, _)
RevenueOfProduct(items, id) ==
    IF items = <<>> THEN Num(0)
    ELSE Plus(IF IsOfProduct(Head(items), id)
              THEN Times(Num(Head(items).quantity),
                         AmountValue(Head(items).originalUnitPriceSet.shopMoney.amount))
              ELSE Num(0),
              RevenueOfProduct(Tail(items), id))

\* C14: total_quantity_sold and total_revenue of get_product_analytics are
\* the sums of quantity and of quantity x unit price over exactly the line
\* items of the returned page of orders whose product id is the requested
\* product_id; the line items of other products and those with no linked
\* product add nothing.
C14_ProductTotals ==
    \A i \in Invocations :
        Summarised(i, "get_product_analytics") =>
            LET items == LineItemsOf(OrdersOf(i, 2))
                id    == call[i].args.product_id
                sales == payload[i][1].sales
            IN  /\ sales.total_quantity_sold = QuantityOfProduct(items, id)
                /\ sales.total_revenue = RevenueOfProduct(items, id)
                /\ (\A k \in DOMAIN items : ~IsOfProduct(items[k], id)) =>
                      /\ sales.total_quantity_sold = 0
                      /\ sales.total_revenue = Num(0)

\* C14 witness: for product P1, a page with 2 units of P1 at 10.00, a line
\* item of P2 and a line item with no product gave 2 units and 20.
C14_Witness ==
    \E i \in Invocations :
        /\ Summarised(i, "get_product_analytics")
        /\ call[i].args.product_id = "P1"
        /\ \E k \in DOMAIN LineItemsOf(OrdersOf(i, 2)) :
              IsOfProduct(LineItemsOf(OrdersOf(i, 2))[k], "P2")
        /\ \E k \in DOMAIN LineItemsOf(OrdersOf(i, 2)) :
              LineItemsOf(OrdersOf(i, 2))[k].product = <<>>
        /\ payload[i][1].sales.total_quantity_sold = 2
        /\ payload[i][1].sales.total_revenue = Num(20)

\* The tools whose query is windowed by a date.
DateWindowedNames == {"get_financial_summary", "get_sales_summary"}

\* Requests i and j serve the same name and arguments.
SameCall(i, j) ==
    /\ pc[i] # "idle"
    /\ pc[j] # "idle"
    /\ call[i] = call[j]
    /\ call[i] # NoCall

\* The days of the window of a call, 30 when none (or 0) is given.
DaysOf(args) == IF "days" \in DOMAIN args /\ args.days # 0 THEN args.days ELSE 30

\* The filter `created_at:>='<day>T00:00:00.000Z'`.
CreatedSince(day) == "created_at:>='" \o ToString(day) \o "T00:00:00.000Z'"

\* C15 (as amended): two invocations of the same tool with identical arguments
\* send the same query text; they send the same variables too, except for
\* get_financial_summary and get_sales_summary, whose only variable is the
\* filter created_at:>= (the time of the invocation minus `days`), so that it
\* differs between invocations made at different times.
C15_Composition ==
    /\ [](\A i \in DOMAIN pc, j \in DOMAIN pc :
            SameCall(i, j) =>
               \A k \in DOMAIN sent[i] \cap DOMAIN sent[j] :
                  /\ sent[i][k].query = sent[j][k].query
                  /\ call[i].name \notin DateWindowedNames =>
                        sent[i][k].variables = sent[j][k].variables)
    /\ [][\A i \in DOMAIN pc :
            (pc[i] = "idle" /\ pc'[i] # "idle" /\ call'[i].name \in DateWindowedNames) =>
               /\ Len(sent'[i]) = 1
               /\ sent'[i][1].variables =
                     ("query" :> CreatedSince(now - DaysOf(call'[i].args)))]_vars

\* C15 witness: two get_financial_summary invocations with the same
\* arguments, made at different times, sent the same query text with
\* different variables.
C15_Witness ==
    \E i \in DOMAIN pc, j \in DOMAIN pc :
        /\ SameCall(i, j)
        /\ call[i].name = "get_financial_summary"
        /\ Len(sent[i]) = 1
        /\ Len(sent[j]) = 1
        /\ sent[i][1].query = sent[j][1].query
        /\ sent[i][1].variables # sent[j][1].variables

\* C15 as stated: two invocations with identical arguments, at any two
\* points in time, send identical query text and variables.
C15_Original ==
    \A i \in DOMAIN pc, j \in DOMAIN pc :
        SameCall(i, j) =>
            \A k \in DOMAIN sent[i] \cap DOMAIN sent[j] : sent[i][k] = sent[j][k]

\* C16: get_product_analytics issues its two queries in sequence: the order
\* scan is issued only once the product query has returned, and when the
\* product query raises the order scan is never issued and the invocation
\* returns the error envelope.
C16_Sequenced ==
    \A i \in Invocations :
        (pc[i] # "idle" /\ call[i].name = "get_product_analytics") =>
            /\ Len(sent[i]) <= 2
            /\ Len(sent[i]) >= 1 => sent[i][1].query = QueryGetProduct
            /\ Len(sent[i]) = 2 =>
                  /\ sent[i][2].query = QueryGetOrdersForProduct
                  /\ 1 \in DOMAIN settled[i]
                  /\ settled[i][1].ok
            /\ (1 \in DOMAIN settled[i] /\ ~settled[i][1].ok) =>
                  /\ Len(sent[i]) = 1
                  /\ pc[i] = "done"
                  /\ IsErrorResult(i)

\* C16 witness: the product query raised; the invocation ended with the error
\* envelope and only that query was issued.
C16_Witness ==
    \E i \in Invocations :
        /\ call[i].name = "get_product_analytics"
        /\ pc[i] = "done"
        /\ Len(sent[i]) = 1
        /\ 1 \in DOMAIN settled[i]
        /\ ~settled[i][1].ok
        /\ result[i] = <<ErrorEnvelopeOf("Throttled")>>

\* Call k of request i returned (it did not raise).
Returned(i, k) == k \in DOMAIN settled[i] /\ settled[i][k].ok

\* Call k of request i returned a body that carries `data`.
ReturnedData(i, k) == Returned(i, k) /\ "data" \in DOMAIN settled[i][k].body

\* Request i is a get_store_summary invocation that has ended.
StoreSummaryEnded(i) == pc[i] = "done" /\ call[i].name = "get_store_summary"

\* C17 (as amended): get_store_summary issues the product-list and the
\* most-recent-order queries together and, once both have returned, the
\* 100-order query; it returns a success summary if and only if none of the
\* three raises and the product-list and 100-order responses carry data (the
\* response to the most-recent-order query is never read). In whatever order
\* the two concurrent queries complete, the summary depends only on the
\* responses: products.total is the number of products returned,
\* orders.recent_count and orders.total_revenue are those of the 100-order
\* sample, and currency is that of the sample's first order, or "USD" when
\* the sample is empty.
C17_StoreSummary ==
    \A i \in Invocations :
        (pc[i] # "idle" /\ call[i].name = "get_store_summary") =>
            /\ Len(sent[i]) \in {2, 3}
            /\ sent[i][1].query = QueryStoreProducts
            /\ sent[i][2].query = QueryStoreOrders
            /\ Len(sent[i]) = 3 =>
                  /\ sent[i][3].query = QueryRecentOrders
                  /\ Returned(i, 1)
                  /\ Returned(i, 2)
            /\ pc[i] = "done" =>
                  ( (caught[i] = <<>> /\ Len(payload[i]) = 1)
                    <=> ( /\ Len(sent[i]) = 3
                          /\ ReturnedData(i, 1)
                          /\ Returned(i, 2)
                          /\ ReturnedData(i, 3) ) )
            /\ Summarised(i, "get_store_summary") =>
                  LET products == settled[i][1].body.data.products.edges
                      orders   == OrdersOf(i, 3)
                      summary  == payload[i][1]
                  IN  /\ summary.products.total = Len(products)
                      /\ summary.orders.recent_count = Len(orders)
                      /\ summary.orders.total_revenue = SumOfTotals(orders)
                      /\ summary.orders.currency =
                            (IF orders = <<>> THEN "USD"
                             ELSE orders[1].node.totalPriceSet.shopMoney.currencyCode)

\* C17 witness: two products and a sample of two orders (10.00 and 25.50
\* EUR) gave the summary 2 / 2 / 35.50 / EUR.
C17_Witness ==
    \E i \in Invocations :
        /\ Summarised(i, "get_store_summary")
        /\ payload[i][1].products.total = 2
        /\ payload[i][1].orders.recent_count = 2
        /\ payload[i][1].orders.total_revenue = [num |-> 71, den |-> 2]
        /\ payload[i][1].orders.currency = "EUR"

\* C17 as stated: the invocation returns a success summary if and only if
\* all three queries succeed (each returns a result).
C17_Original ==
    \A i \in Invocations :
        StoreSummaryEnded(i) =>
            ( caught[i] = <<>>
              <=> ( /\ Len(sent[i]) = 3
                    /\ \A k \in 1..3 : ReturnedData(i, k) ) )

\* The most upstream calls an invocation of `name` may make.
MaxCalls(name) ==
    CASE name = "get_store_summary" -> 3
      [] name = "get_product_analytics" -> 2
      [] name \in CatalogNames -> 1
      [] OTHER -> 0

\* An upstream call of request i raised.
FailureObserved(i) == \E k \in DOMAIN settled[i] : ~settled[i][k].ok

\* C18: no upstream call is retried: an invocation executes each composed
\* query or mutation at most once (at most 1 call for the seven one-query
\* tools, 2 for get_product_analytics, 3 for get_store_summary); once an
\* upstream call has raised, the invocation issues no further call and
\* returns the error envelope carrying the message of that error.
C18_NoRetry ==
    /\ [](\A i \in Invocations :
            pc[i] # "idle" =>
               /\ Len(sent[i]) <= MaxCalls(call[i].name)
               /\ \A k \in DOMAIN sent[i], j \in DOMAIN sent[i] :
                     k # j => sent[i][k] # sent[i][j]
               /\ FailureObserved(i) =>
                     /\ pc[i] = "done"
                     /\ \E k \in DOMAIN settled[i] :
                           /\ "error" \in DOMAIN settled[i][k]
                           /\ caught[i] = <<settled[i][k].error>>
                           /\ result[i] =
                                 << ErrorEnvelopeOf(
                                      IF settled[i][k].error.instanceofError
                                      THEN settled[i][k].error.message
                                      ELSE settled[i][k].error.string) >>)
    /\ [][\A i \in Invocations :
            FailureObserved(i) => (sent'[i] = sent[i] \/ pc'[i] = "idle")]_vars

\* C18 witness: the first query of get_store_summary raised while the second
\* was in flight; the invocation ended with that error's text and the third
\* query was never issued.
C18_Witness ==
    \E i \in Invocations :
        /\ call[i].name = "get_store_summary"
        /\ pc[i] = "done"
        /\ Len(sent[i]) = 2
        /\ DOMAIN settled[i] = {1}
        /\ ~settled[i][1].ok
        /\ result[i] = <<ErrorEnvelopeOf("ECONNRESET")>>

\* What the server holds for request i.
Local(i) == <<pc[i], call[i], sent[i], settled[i], caught[i], payload[i], result[i]>>

\* Nothing is held for a request that is not being served.
NothingHeld == <<"idle", NoCall, <<>>, <<>>, <<>>, <<>>, <<>>>>

\* Requests i and j were given the same name and arguments, sent the same
\* upstream requests (the clock enters only there) and got the same outcomes.
SameInputs(i, j) ==
    /\ pc[i] = "done"
    /\ pc[j] = "done"
    /\ call[i] = call[j]
    /\ sent[i] = sent[j]
    /\ settled[i] = settled[j]

\* C19: invocations are independent and stateless. Under every interleaving
\* of two concurrent invocations, two invocations with the same name,
\* arguments, upstream requests and upstream outcomes return the same
\* envelope; a step of one invocation changes nothing that is held for the
\* other; nothing is retained once an invocation has been answered; and
\* list_tools returns the same nine-entry catalog in every state.
C19_Independent ==
    /\ [](\A i \in DOMAIN pc, j \in DOMAIN pc :
            SameInputs(i, j) => result[i] = result[j])
    /\ [](\A i \in DOMAIN pc :
            (pc[i] = "done" /\ call[i] = NoCall) =>
               /\ result[i] = <<[tools |-> TOOLS]>>
               /\ Len(result[i][1].tools) = 9
               /\ {result[i][1].tools[k].name : k \in 1..9} = CatalogNames)
    /\ [](\A i \in DOMAIN pc : pc[i] = "idle" => Local(i) = NothingHeld)
    /\ [][\A i \in DOMAIN pc, j \in DOMAIN pc :
            i # j => (Local(i)' = Local(i) \/ Local(j)' = Local(j))]_vars
    /\ [][\A i \in DOMAIN pc :
            (pc[i] = "done" /\ pc'[i] # "done") => Local(i)' = NothingHeld]_vars

\* C19 witness: two concurrent get_financial_summary invocations with the
\* same inputs both returned the same summary, while list_tools is the
\* catalog (every list_tools answer in the run is that catalog).
C19_Witness ==
    \E i \in DOMAIN pc, j \in DOMAIN pc :
        /\ i # j
        /\ SameInputs(i, j)
        /\ call[i].name = "get_financial_summary"
        /\ caught[i] = <<>>
        /\ Len(payload[i]) = 1
        /\ payload[i][1].total_orders = 1
        /\ result[i] = result[j]

\* A call of request i hangs.
HasHungCall(i) == \E k \in DOMAIN sent[i] : <<i, k>> \in HungCalls

\* C20 (as amended): there is no timeout or cancellation: an awaiting
\* invocation is answered only by a step in which one of its own upstream
\* calls returns or raises; an invocation none of whose calls hangs
\* eventually returns its envelope, whatever the other invocation does; an
\* invocation all of whose outstanding calls hang stays unanswered. (A hung
\* call of get_store_summary does not keep the invocation unanswered when the
\* query issued together with it raises: that rejection answers it.)
C20_NoTimeout ==
    /\ [][\A i \in DOMAIN pc :
            (pc[i] = "await" /\ pc'[i] # "await") =>
               /\ pc'[i] = "done"
               /\ \E k \in Pending(i) : k \in DOMAIN settled'[i]]_vars
    /\ [][\A i \in DOMAIN pc :
            (pc[i] = "await" /\ \A k \in Pending(i) : <<i, k>> \in HungCalls) =>
               pc'[i] = "await"]_vars
    /\ \A i \in ConcurrentInvocations :
          (pc[i] = "await" /\ ~HasHungCall(i)) ~> (pc[i] = "done")

\* C20 witness: the call of a get_orders invocation hangs and the invocation
\* is unanswered, while the other invocation, a get_store_summary, has
\* returned its summary after its three calls.
C20_Witness ==
    /\ pc["r1"] = "await"
    /\ call["r1"].name = "get_orders"
    /\ Pending("r1") = {1}
    /\ pc["r2"] = "done"
    /\ call["r2"].name = "get_store_summary"
    /\ Len(sent["r2"]) = 3
    /\ caught["r2"] = <<>>
    /\ Len(result["r2"]) = 1

\* C20 as stated: an invocation returns an envelope only if every upstream
\* call it awaits returns or raises, so that an invocation with a hung call
\* is never answered.
C20_Original ==
    \A i \in DOMAIN pc : pc[i] = "done" => ~HasHungCall(i)

====
